---------------------------- MODULE Spec2Model ----------------------------
(***************************************************************************)
(* html_parser: the Tokenizer (src/src/tokenizer.rs) and the recursive     *)
(* Parser (src/src/lib.rs).                                                *)
(*                                                                         *)
(* A string is a sequence of one-character strings.  Rust strings are      *)
(* UTF-8: a character occupies Utf8Width(c) bytes, CharIndices yields byte *)
(* offsets, and slicing a &str at a byte offset that is not a character    *)
(* boundary panics.  A panic is recorded in the tokenizer state            *)
(* (panicked) and ends the run.                                            *)
(***************************************************************************)
EXTENDS Naturals, Sequences, FiniteSets

(***************************************************************************)
(* Characters                                                              *)
(***************************************************************************)
\* U+00A0 NO-BREAK SPACE: White_Space, two bytes in UTF-8.
NoBreakSpace == " "

\* char::is_whitespace for the characters of the model's alphabets.
is_whitespace(c) == c \in {" ", "\n", "\t", NoBreakSpace}

\* char::len_utf8 for the characters of the model's alphabets.
Utf8Width(c) ==
    IF c \in {"é", "ü", NoBreakSpace} THEN 2 ELSE 1

(***************************************************************************)
(* Option, Position, Span, Token                                           *)
(***************************************************************************)
\* let v = ...; F(v): binds a value that is used more than once.
Let(v, F(_)) == F(v)

None == [some |-> FALSE]
Some(v) == [some |-> TRUE, val |-> v]

Position(l, c) == [line |-> l, column |-> c]

Span(start, end, text) == [range |-> [start |-> start, end |-> end], source |-> text]

\* Span::point
point(pos) == Span(pos, pos, <<>>)

\* Token { span, kind }: kind is the variant's name, payload its field
\* (name / value / text; OpeningTagEnd carries none).
Token(kind, payload, span) == [kind |-> kind, payload |-> payload, span |-> span]

(***************************************************************************)
(* &str byte offsets and slicing                                           *)
(***************************************************************************)
RECURSIVE ByteLen(_)
\* str::len: the number of bytes of s.
ByteLen(s) == IF s = <<>> THEN 0 ELSE Utf8Width(Head(s)) + ByteLen(Tail(s))

\* The byte offset CharIndices reports for the k-th character (k >= 1) of s;
\* for k = Len(s) + 1 the byte length of s.
ByteIndex(s, k) == ByteLen(SubSeq(s, 1, k - 1))

\* The character positions k of s (Len(s) + 1: the end) that start at byte b:
\* empty when b is not a character boundary (str::is_char_boundary).
CharsAtByte(s, b) == {k \in 1..(Len(s) + 1) : k <= b + 1 /\ ByteIndex(s, k) = b}

\* &s[lo..hi]: ok is FALSE when the slice panics (lo > hi, an offset past the
\* end, or an offset that is not a character boundary).
ByteSlice(s, lo, hi) ==
    Let(CharsAtByte(s, lo), LAMBDA first :
    Let(CharsAtByte(s, hi), LAMBDA last :
        IF lo <= hi /\ first # {} /\ last # {}
        THEN [ok |-> TRUE,
              str |-> SubSeq(s, CHOOSE k \in first : TRUE, (CHOOSE k \in last : TRUE) - 1)]
        ELSE [ok |-> FALSE, str |-> <<>>]))

(***************************************************************************)
(* Tokenizer.  tz = [it, consume_mode, line, column, panicked]; it is the  *)
(* number of characters the CharIndices iterator has yielded.              *)
(***************************************************************************)
\* Tokenizer::new
TokenizerNew ==
    [it |-> 0, consume_mode |-> "OutsideTag", line |-> 0, column |-> 0, panicked |-> FALSE]

current_position(tz) == Position(tz.line, tz.column)

\* self.it.clone().next(): the next character, if any.
look_ahead1(src, tz) ==
    IF tz.it < Len(src) THEN Some(src[tz.it + 1]) ELSE None

\* Mutant: a newline increments the line and the column is not reset.
AdvancePosition_keeps_column(tz, c) ==
    IF c = "\n"
    THEN [tz EXCEPT !.it = @ + 1, !.line = @ + 1, !.column = @ + 1]
    ELSE [tz EXCEPT !.it = @ + 1, !.column = @ + 1]

\* The line/column update made for one consumed character c.
AdvancePosition(tz, c) ==
    IF c = "\n"
    THEN [tz EXCEPT !.it = @ + 1, !.line = @ + 1, !.column = 0]
    ELSE [tz EXCEPT !.it = @ + 1, !.column = @ + 1]

RECURSIVE move_cursor(_, _, _)
\* Tokenizer::move_cursor: advance over at most `by` characters.
move_cursor(src, tz, by) ==
    IF by = 0 \/ tz.it >= Len(src) THEN tz
    ELSE move_cursor(src, AdvancePosition(tz, src[tz.it + 1]), by - 1)

\* Tokenizer::consume_character: [span, tz].  The span's end is read before the
\* cursor moves, so start = end although the text is the one character c.  The
\* position and the cursor move before the slice is taken, so a slice that
\* panics leaves the Tokenizer one character further.
consume_character(src, tz, c) ==
    IF tz.panicked THEN [span |-> None, tz |-> tz]
    ELSE Let(look_ahead1(src, tz), LAMBDA la :
         IF la.some /\ la.val = c
         THEN Let(ByteIndex(src, tz.it + 1), LAMBDA i :
              Let(ByteSlice(src, i, i + 1), LAMBDA sl :
              IF sl.ok
              THEN [span |-> Some(Span(current_position(tz), current_position(tz), sl.str)),
                    tz |-> AdvancePosition(tz, c)]
              ELSE [span |-> None,
                    tz |-> [AdvancePosition(tz, c) EXCEPT !.panicked = TRUE]]))
         ELSE [span |-> None, tz |-> tz])

\* The number of characters the while loop of consume_characters consumes: the
\* longest run from the cursor whose characters all satisfy condition.
RunLength(src, tz, condition(_)) ==
    CHOOSE n \in 0..(Len(src) - tz.it) :
        /\ \A j \in 1..n : condition(src[tz.it + j])
        /\ (tz.it + n = Len(src) \/ ~condition(src[tz.it + n + 1]))

\* Tokenizer::consume_characters: [span, tz].  The slice ends at last_index + 1,
\* one byte after the offset of the last consumed character.
consume_characters(src, tz, condition(_)) ==
    IF tz.panicked THEN [span |-> None, tz |-> tz]
    ELSE Let(RunLength(src, tz, condition), LAMBDA n :
         IF n = 0 THEN [span |-> None, tz |-> tz]
         ELSE Let(move_cursor(src, tz, n), LAMBDA after :
              Let(ByteSlice(src, ByteIndex(src, tz.it + 1), ByteIndex(src, tz.it + n) + 1),
                  LAMBDA sl :
              IF sl.ok
              THEN [span |-> Some(Span(current_position(tz), current_position(after),
                                       sl.str)),
                    tz |-> after]
              ELSE [span |-> None, tz |-> [after EXCEPT !.panicked = TRUE]])))

\* Tokenizer::consume_whitespace: the tokenizer state after it.
consume_whitespace(src, tz) ==
    consume_characters(src, tz, is_whitespace).tz

\* Mutant: a hyphen or a digit ends an identifier.
is_identifier_char_plain(c) ==
    c \notin {"=", "/", ">", "-", "1"} /\ ~is_whitespace(c)

\* The characters an identifier run is made of.
is_identifier_char(c) == c # "=" /\ c # "/" /\ c # ">" /\ ~is_whitespace(c)

\* Tokenizer::consume_identifier: [span, tz].
consume_identifier(src, tz) ==
    consume_characters(src, consume_whitespace(src, tz), is_identifier_char)

\* Option::map over a [span, tz] result: the token of the given kind whose
\* payload is the span's text, or none.
TokenOf(kind, r) ==
    [token |-> IF r.span.some THEN Some(Token(kind, r.span.val.source, r.span.val))
               ELSE None,
     tz |-> r.tz]

\* Tokenizer::consume_attribute_name: [token, tz].
consume_attribute_name(src, tz) ==
    TokenOf("AttributeName", consume_identifier(src, tz))

\* Tokenizer::consume_opening_tag_end: [token, tz].
consume_opening_tag_end(src, tz) ==
    Let(consume_character(src, tz, ">"), LAMBDA r :
        [token |-> IF r.span.some THEN Some(Token("OpeningTagEnd", <<>>, r.span.val))
                   ELSE None,
         tz |-> r.tz])

\* Mutant: a text also ends at ">".
is_not_angle_bracket(c) == c # "<" /\ c # ">"

is_not_tag_open(c) == c # "<"

\* Tokenizer::consume_text_node: [token, tz].
consume_text_node(src, tz) ==
    TokenOf("Text", consume_characters(src, tz, is_not_tag_open))

\* Mutant: a tag that begins with "<!" is passed up to its ">" and gives no
\* token.
consume_tag_skips_declaration(src, tz) ==
    Let(look_ahead1(src, tz), LAMBDA la :
    IF la.some /\ la.val = "<" /\ tz.it + 1 < Len(src) /\ src[tz.it + 2] = "!"
    THEN [token |-> None, tz |-> consume_characters(src, tz, LAMBDA c : c # ">").tz]
    ELSE IF la.some /\ la.val = "<"
    THEN Let(consume_character(src, move_cursor(src, tz, 1), "/"), LAMBDA slash :
         Let(consume_identifier(src, slash.tz), LAMBDA id :
         Let(IF id.span.some THEN id.span.val ELSE point(current_position(id.tz)),
             LAMBDA identifier :
         [token |-> Some(Token(IF slash.span.some THEN "TagEnd" ELSE "TagName",
                               identifier.source, identifier)),
          tz |-> IF slash.span.some THEN consume_character(src, id.tz, ">").tz
                 ELSE id.tz])))
    ELSE [token |-> None, tz |-> tz])

\* Tokenizer::consume_tag: [token, tz].
consume_tag(src, tz) ==
    Let(look_ahead1(src, tz), LAMBDA la :
    IF la.some /\ la.val = "<"
    THEN Let(consume_character(src, move_cursor(src, tz, 1), "/"), LAMBDA slash :
         Let(consume_identifier(src, slash.tz), LAMBDA id :
         Let(IF id.span.some THEN id.span.val ELSE point(current_position(id.tz)),
             LAMBDA identifier :
         [token |-> Some(Token(IF slash.span.some THEN "TagEnd" ELSE "TagName",
                               identifier.source, identifier)),
          tz |-> IF slash.span.some THEN consume_character(src, id.tz, ">").tz
                 ELSE id.tz])))
    ELSE [token |-> None, tz |-> tz])

is_not_double_quote(c) == c # "\""
is_not_single_quote(c) == c # "'"
is_unquoted_value_char(c) == ~is_whitespace(c) /\ c # ">" /\ c # "/"

\* The token consume_attribute_value builds from the span r.span consumed for
\* the value, or, when nothing was consumed, from the point span at the
\* cursor of after: [token, tz].
ValueToken(r, after) ==
    [token |-> IF r.span.some
               THEN Token("AttributeValue", r.span.val.source, r.span.val)
               ELSE Token("AttributeValue", <<>>, point(current_position(after))),
     tz |-> after]

\* The characters consumed for a value opened by the quote q: [span, tz].
consume_until_quote(src, tz, q) ==
    IF q = "\"" THEN consume_characters(src, tz, is_not_double_quote)
    ELSE consume_characters(src, tz, is_not_single_quote)

\* The quoted branch of consume_attribute_value, entered after the opening
\* quote q has been consumed: the closing quote is consumed when present.
consume_quoted_value(src, tz, q) ==
    Let(consume_until_quote(src, tz, q), LAMBDA r :
        ValueToken(r, consume_character(src, r.tz, q).tz))

\* The unquoted branch of consume_attribute_value, entered after `=` when no
\* quote follows.
consume_unquoted_value(src, tz) ==
    Let(consume_characters(src, tz, is_unquoted_value_char), LAMBDA r :
        ValueToken(r, r.tz))

\* Mutant: without "=" the whitespace after the name is consumed before the
\* point span is taken.
consume_attribute_value_skips_whitespace(src, tz) ==
    Let(consume_character(src, tz, "="), LAMBDA eq :
    IF eq.span.some
    THEN Let(consume_character(src, eq.tz, "\""), LAMBDA dq :
         IF dq.span.some THEN consume_quoted_value(src, dq.tz, "\"")
         ELSE Let(consume_character(src, dq.tz, "'"), LAMBDA sq :
              IF sq.span.some THEN consume_quoted_value(src, sq.tz, "'")
              ELSE consume_unquoted_value(src, sq.tz)))
    ELSE ValueToken(eq, consume_whitespace(src, eq.tz)))

\* Tokenizer::consume_attribute_value: [token, tz]; the token always exists.
consume_attribute_value(src, tz) ==
    Let(consume_character(src, tz, "="), LAMBDA eq :
    IF eq.span.some
    THEN Let(consume_character(src, eq.tz, "\""), LAMBDA dq :
         IF dq.span.some THEN consume_quoted_value(src, dq.tz, "\"")
         ELSE Let(consume_character(src, dq.tz, "'"), LAMBDA sq :
              IF sq.span.some THEN consume_quoted_value(src, sq.tz, "'")
              ELSE consume_unquoted_value(src, sq.tz)))
    ELSE ValueToken(eq, eq.tz))

\* The OutsideTag arm of Tokenizer::next.  A panic inside consume_tag unwinds
\* before the mode is set.
next_outside_tag(src, tz) ==
    Let(consume_tag(src, tz), LAMBDA tag :
    IF tag.tz.panicked THEN [token |-> None, tz |-> tag.tz]
    ELSE IF tag.token.some
    THEN [token |-> tag.token,
          tz |-> IF tag.token.val.kind # "TagEnd"
                 THEN [tag.tz EXCEPT !.consume_mode = "AttributeName"]
                 ELSE tag.tz]
    ELSE consume_text_node(src, tz))

\* Mutant: the AttributeName arm does not consume the "/" before ">".
next_attribute_name_keeps_slash(src, tz) ==
    Let(consume_whitespace(src, tz), LAMBDA slash :
    Let(consume_opening_tag_end(src, slash), LAMBDA tag_end :
    IF tag_end.token.some
    THEN [token |-> tag_end.token,
          tz |-> [tag_end.tz EXCEPT !.consume_mode = "OutsideTag"]]
    ELSE Let(consume_attribute_name(src, slash), LAMBDA attribute_name :
         IF attribute_name.token.some
         THEN [token |-> attribute_name.token,
               tz |-> [attribute_name.tz EXCEPT !.consume_mode = "AttributeValue"]]
         ELSE [token |-> None, tz |-> attribute_name.tz])))

\* The AttributeName arm of Tokenizer::next.
next_attribute_name(src, tz) ==
    Let(consume_character(src, consume_whitespace(src, tz), "/").tz, LAMBDA slash :
    Let(consume_opening_tag_end(src, slash), LAMBDA tag_end :
    IF tag_end.token.some
    THEN [token |-> tag_end.token,
          tz |-> [tag_end.tz EXCEPT !.consume_mode = "OutsideTag"]]
    ELSE Let(consume_attribute_name(src, slash), LAMBDA attribute_name :
         IF attribute_name.token.some
         THEN [token |-> attribute_name.token,
               tz |-> [attribute_name.tz EXCEPT !.consume_mode = "AttributeValue"]]
         ELSE [token |-> None, tz |-> attribute_name.tz])))

\* Mutant: the AttributeValue arm leaves the mode at AttributeValue.
next_attribute_value_keeps_mode(src, tz) ==
    Let(consume_attribute_value(src, tz),
        LAMBDA r : [token |-> Some(r.token), tz |-> r.tz])

\* The AttributeValue arm of Tokenizer::next.
next_attribute_value(src, tz) ==
    Let(consume_attribute_value(src, [tz EXCEPT !.consume_mode = "AttributeName"]),
        LAMBDA r : [token |-> Some(r.token), tz |-> r.tz])

\* The match of Tokenizer::next on the mode.
next_dispatch(src, tz) ==
    CASE tz.consume_mode = "OutsideTag" -> next_outside_tag(src, tz)
      [] tz.consume_mode = "AttributeName" -> next_attribute_name(src, tz)
      [] tz.consume_mode = "AttributeValue" -> next_attribute_value(src, tz)

\* Tokenizer::next: [token, tz]; token is None when the call returns nothing.
\* When tz.panicked is set in the result the call panicked and returned nothing.
next(src, tz) ==
    Let(next_dispatch(src, tz), LAMBDA r :
        IF r.tz.panicked THEN [token |-> None, tz |-> r.tz] ELSE r)

(***************************************************************************)
(* Parser                                                                  *)
(***************************************************************************)
\* Mutant: the buffer is not trimmed.
trim_nothing(s) == s

\* Mutant: only the leading whitespace is removed (trim_start).
trim_start(s) ==
    LET keep == {k \in 1..Len(s) : ~is_whitespace(s[k])}
    IN IF keep = {} THEN <<>>
       ELSE SubSeq(s, CHOOSE k \in keep : \A m \in keep : k <= m, Len(s))

\* str::trim: s without its leading and trailing whitespace.
trim(s) ==
    LET keep == {k \in 1..Len(s) : ~is_whitespace(s[k])}
    IN IF keep = {} THEN <<>>
       ELSE LET first == CHOOSE k \in keep : \A m \in keep : k <= m
                last == CHOOSE k \in keep : \A m \in keep : m <= k
            IN SubSeq(s, first, last)

\* Node { kind: NodeKind::Text(token) }
TextNode(token) == [kind |-> "Text", token |-> token]

\* Node { kind: NodeKind::Element(Element { attributes, children, tag_name }) }
ElementNode(tag_name, attributes, children) ==
    [kind |-> "Element", tag_name |-> tag_name, attributes |-> attributes,
     children |-> children]

\* Attribute { name, value }
Attribute(name, value) == [name |-> name, value |-> value]

\* Attribute::value_text: [ok, text]; ok is FALSE when the slice
\* &source[1..source.len() - 1] panics.
value_text(attribute) ==
    Let(attribute.value.span.source, LAMBDA s :
        IF s # <<>> /\ s[1] \in {"\"", "'"}
        THEN Let(ByteSlice(s, 1, ByteLen(s) - 1), LAMBDA sl :
                 [ok |-> sl.ok, text |-> sl.str])
        ELSE [ok |-> TRUE, text |-> s])

\* Attribute::name_text
name_text(attribute) == attribute.name.span.source

\* Mutant: a TagEnd is matched like a Text.
parse_arm_keeps_tag_end(kind) ==
    CASE kind = "TagName" -> "element"
      [] kind \in {"Text", "TagEnd"} -> "text"
      [] OTHER -> "discard"

\* Mutant: a TagEnd is matched like a TagName.
parse_arm_tag_end_opens(kind) ==
    CASE kind \in {"TagName", "TagEnd"} -> "element"
      [] kind = "Text" -> "text"
      [] OTHER -> "discard"

\* The match arm Parser::parse takes for a token of the given kind.
parse_arm(kind) ==
    CASE kind = "TagName" -> "element"
      [] kind = "Text" -> "text"
      [] OTHER -> "discard"

\* The match arm Parser::parse_attributes takes for a token of the given kind.
parse_attributes_arm(kind) ==
    CASE kind = "AttributeName" -> "attribute"
      [] kind = "OpeningTagEnd" -> "break"
      [] OTHER -> "skip"

\* A call frame of Parser::parse: its local nodes, and, while the TagName arm
\* is waiting for parse_attributes() and the recursive parse(), the tag-name
\* token and the attributes collected for it.
ParseFrame == [fn |-> "parse", nodes |-> <<>>, tag_name |-> None, attributes |-> <<>>]

\* A call frame of Parser::parse_attributes: its local attributes.
ParseAttributesFrame == [fn |-> "parse_attributes", attributes |-> <<>>]

(***************************************************************************)
(* Bounds and inputs                                                       *)
(***************************************************************************)
\* Every string of at most MaxLen characters of Alphabet is an input.
MaxLen == 3
\* The opening tags of a nested input.
MaxDepth == 3
\* The closing tags of an input made of closing tags only.
MaxClosers == 2
\* The characters of the text t of an input <n>t</n>.
MaxTextLen == 2
\* The attributes of the opening tag of an attribute input.
MaxAttrs == 2
\* The calls of Tokenizer::next one run may make.
MaxCalls == 32
\* The calls of Parser::parse the caller makes on one Parser.
MaxParseCalls == 2

Alphabet == {"<", ">", "/", "=", "\"", "'", " ", "\n", "a", "é", NoBreakSpace}

\* The sequences over S whose length is in lens.
SeqsOf(S, lens) == UNION {[1..n -> S] : n \in lens}

RECURSIVE Flatten(_)
\* The concatenation of a sequence of strings.
Flatten(ss) == IF ss = <<>> THEN <<>> ELSE Head(ss) \o Flatten(Tail(ss))

ShortInputs == SeqsOf(Alphabet, 0..MaxLen)

OpenTag(n) == <<"<">> \o n \o <<">">>
CloseTag(n) == <<"<", "/">> \o n \o <<">">>

\* Nested inputs <t1><t2>...<tk></c1>...</cj>, 1 <= k <= MaxDepth, 0 <= j <= k.
OpenNames == {<<"a">>, <<"B", "c">>, <<"é">>}
CloseNames == {<<"a">>, <<"b", "C">>}
NestedShapes ==
    {[opens |-> o, closes |-> c] :
        o \in SeqsOf(OpenNames, 1..MaxDepth), c \in SeqsOf(CloseNames, 0..MaxDepth)}
NestedInput(d) ==
    Flatten([i \in 1..Len(d.opens) |-> OpenTag(d.opens[i])])
        \o Flatten([i \in 1..Len(d.closes) |-> CloseTag(d.closes[i])])
NestedInputs == {NestedInput(d) : d \in {e \in NestedShapes : Len(e.closes) <= Len(e.opens)}}

\* Inputs made of 1..MaxClosers closing tags only.
CloserNames == {<<"a">>, <<"b", "C">>, <<"é">>, <<>>}
CloserShapes == SeqsOf(CloserNames, 1..MaxClosers)
ClosersInput(d) == Flatten([i \in 1..Len(d) |-> CloseTag(d[i])])
ClosersInputs == {ClosersInput(d) : d \in CloserShapes}

\* Inputs <n>t</n>: n a non-empty identifier run, t without "<".
ElementNames == {<<"a">>, <<"B", "-", "1">>, <<"é">>}
TextAlphabet == {"x", " ", ">", "é"}
ElementTextShapes ==
    {[name |-> n, text |-> t] : n \in ElementNames, t \in SeqsOf(TextAlphabet, 0..MaxTextLen)}
ElementTextInput(d) == OpenTag(d.name) \o d.text \o CloseTag(d.name)
ElementTextInputs == {ElementTextInput(d) : d \in ElementTextShapes}

\* Attribute inputs <t A1 ... Am>, <t A1 ... Am/> and <t A1 ... Am />,
\* 0 <= m <= MaxAttrs.  An attribute is written a (bare), a=v (unquoted),
\* a="v" (double) or a='v' (single).
AttrChoices ==
    {[name |-> <<"a">>, form |-> "bare", value |-> <<>>],
     [name |-> <<"b", "1">>, form |-> "bare", value |-> <<>>],
     [name |-> <<"b", "1">>, form |-> "unquoted", value |-> <<>>],
     [name |-> <<"b", "1">>, form |-> "unquoted", value |-> <<"v">>],
     [name |-> <<"b", "1">>, form |-> "unquoted", value |-> <<"é">>],
     [name |-> <<"a">>, form |-> "double", value |-> <<>>],
     [name |-> <<"a">>, form |-> "double", value |-> <<"v">>],
     [name |-> <<"a">>, form |-> "double",
      value |-> <<"'", ">", "/", " ", "\n", "w">>],
     [name |-> <<"b", "1">>, form |-> "single", value |-> <<"\"", ">">>],
     [name |-> <<"a">>, form |-> "single", value |-> <<"v", "é">>]}
AttrText(at) ==
    CASE at.form = "bare" -> at.name
      [] at.form = "unquoted" -> at.name \o <<"=">> \o at.value
      [] at.form = "double" -> at.name \o <<"=", "\"">> \o at.value \o <<"\"">>
      [] at.form = "single" -> at.name \o <<"=", "'">> \o at.value \o <<"'">>
SelfCloseMarks == {<<>>, <<"/">>, <<" ", "/">>}
AttrShapes ==
    {[attrs |-> l, mark |-> m] : l \in SeqsOf(AttrChoices, 0..MaxAttrs), m \in SelfCloseMarks}
AttrInput(d) ==
    <<"<", "t">> \o Flatten([i \in 1..Len(d.attrs) |-> <<" ">> \o AttrText(d.attrs[i])])
        \o d.mark \o <<">">>
AttrInputs == {AttrInput(d) : d \in AttrShapes}

\* Documents of the tests and of the specification.
\* <a b="c">x</a>
DocAttrText ==
    <<"<", "a", " ", "b", "=", "\"", "c", "\"", ">", "x", "<", "/", "a", ">">>
\* <a></a><b></b>
DocSiblings ==
    <<"<", "a", ">", "<", "/", "a", ">", "<", "b", ">", "<", "/", "b", ">">>
\* <!-- comment -->
DocComment ==
    <<"<", "!", "-", "-", " ", "c", "o", "m", "m", "e", "n", "t", " ", "-", "-", ">">>
\* <!DOCTYPE html><html></html>
DocDoctype ==
    <<"<", "!", "D", "O", "C", "T", "Y", "P", "E", " ", "h", "t", "m", "l", ">", "<",
      "h", "t", "m", "l", ">", "<", "/", "h", "t", "m", "l", ">">>
\* the input of tests::test_whitespace
DocWhitespace ==
    <<" ", " ", "<", "h", "t", "m", "l", " ", " ", "l", "a", "n", "g", " ", "=", " ",
      " ", "\"", "e", "n", "\"", " ", " ", ">", " ", " ", "H", "e", "l", "l", "o", " ",
      " ", "<", "/", "h", "t", "m", "l", ">", " ", " ">>
\* <p>éü</p>: a text run of two-byte characters
DocUnicode ==
    <<"<", "p", ">", "é", "ü", "<", "/", "p", ">">>
\* <a //b>x
DocSlashes ==
    <<"<", "a", " ", "/", "/", "b", ">", "x">>
\* an element over four lines
DocLines ==
    <<"<", "a", ">", "\n", "<", "b", " ", "c", "=", "\"", "\n", "\"", ">", "x", "<",
      "/", "b", ">", "\n", "<", "/", "a", ">">>
\* the input of tests::test_self_closing_tags
DocSelfClosing ==
    <<"<", "i", "m", "g", " ", "s", "r", "c", "=", "\"", "e", "x", "a", "m", "p", "l",
      "e", ".", "c", "o", "m", "\"", "/", ">">>
\* <t a="'x'">: a value that begins and ends with the same quote
DocQuotedQuotes ==
    <<"<", "t", " ", "a", "=", "\"", "'", "x", "'", "\"", ">">>
\* <t a="'">: a value that is one quote character
DocLoneQuote ==
    <<"<", "t", " ", "a", "=", "\"", "'", "\"", ">">>
\* the input of test::attribute_name_starts_with_number
DocNumberAttr ==
    <<"<", "t", "a", "g", " ", "1", "a", "t", "t", "r", "=", "v", "a", "l", "u", "e", ">">>
\* the input of test::tag_name_with_dashes
DocCustomElement ==
    <<"<", "c", "u", "s", "t", "o", "m", "-", "e", "l", "e", "m", "e", "n", "t", ">">>
\* <a ////b>x
DocManySlashes ==
    <<"<", "a", " ", "/", "/", "/", "/", "b", ">", "x">>
\* <a> x </a> between leading and trailing whitespace
DocPadded ==
    <<" ", "\n", "<", "a", ">", " ", "x", " ", "<", "/", "a", ">", NoBreakSpace, "\n">>
\* <a =b>x
DocStrayEquals ==
    <<"<", "a", " ", "=", "b", ">", "x">>
\* <a ///b>x
DocThreeSlashes ==
    <<"<", "a", " ", "/", "/", "/", "b", ">", "x">>
\* <!-- c -->
DocShortComment ==
    <<"<", "!", "-", "-", " ", "c", " ", "-", "-", ">">>
\* <!DOCTYPE html>
DocDoctypeOnly ==
    <<"<", "!", "D", "O", "C", "T", "Y", "P", "E", " ", "h", "t", "m", "l", ">">>
\* <a> </a>\n<b>: whitespace-only runs between tags
DocSpacedTags ==
    <<"<", "a", ">", " ", "<", "/", "a", ">", "\n", "<", "b", ">">>
DocumentInputs ==
    {DocAttrText,
     DocShortComment,
     DocDoctypeOnly,
     DocSpacedTags,
     DocThreeSlashes,
     DocStrayEquals,
     DocPadded,
     DocQuotedQuotes,
     DocLoneQuote,
     DocNumberAttr,
     DocCustomElement,
     DocManySlashes,
     DocSiblings,
     DocComment,
     DocDoctype,
     DocWhitespace,
     DocUnicode,
     DocSlashes,
     DocLines,
     DocSelfClosing}

Inputs == ShortInputs \cup NestedInputs \cup ClosersInputs \cup ElementTextInputs
              \cup AttrInputs \cup DocumentInputs

(***************************************************************************)
(* State                                                                   *)
(***************************************************************************)
VARIABLES
    input,      \* the buffer handed to Parser::new
    source,     \* Tokenizer.source: the trimmed buffer
    tz,         \* the Tokenizer's cursor, position and mode
    stack,      \* the call stack of parse / parse_attributes, innermost last
    status,     \* "running", "done" (parse returned) or "panicked"
    forests,    \* the forests the calls of parse() have returned, in order
    tokens,     \* every token next() has returned, in order
    calls,      \* the number of calls of next() made
    accessed    \* the last Attribute::value_text() call of the caller, if any

vars == <<input, source, tz, stack, status, forests, tokens, calls, accessed>>

Top == stack[Len(stack)]

\* The stack with its innermost frame replaced by f.
SetTop(f) == [stack EXCEPT ![Len(stack)] = f]

\* Parser::new(input) followed by the caller's first parser.parse().
Init ==
    /\ input \in Inputs
    /\ source = trim(input)
    /\ tz = TokenizerNew
    /\ stack = <<ParseFrame>>
    /\ status = "running"
    /\ forests = <<>>
    /\ tokens = <<>>
    /\ calls = 0
    /\ accessed = None

\* A loop iteration of parse or parse_attributes is about to call next().
Running(fn) ==
    /\ status = "running"
    /\ Top.fn = fn
    /\ calls < MaxCalls

\* The Tokenizer fields a panicking call of next() leaves behind: the cursor
\* and the position have passed the run whose slice panicked, and the mode is
\* the one set before the panic.
AfterPanic(r) == [r.tz EXCEPT !.panicked = FALSE]

\* The call of next() panics: the run aborts.
Panic ==
    /\ status = "running"
    /\ calls < MaxCalls
    /\ \E r \in {next(source, tz)} :
          /\ r.tz.panicked
          /\ tz' = AfterPanic(r)
    /\ status' = "panicked"
    /\ calls' = calls + 1
    /\ UNCHANGED <<input, source, stack, forests, tokens, accessed>>

\* parse, TagName arm: call parse_attributes().
ParseTagName ==
    /\ Running("parse")
    /\ \E r \in {next(source, tz)} :
          /\ ~r.tz.panicked
          /\ r.token.some
          /\ parse_arm(r.token.val.kind) = "element"
          /\ tz' = r.tz
          /\ tokens' = Append(tokens, r.token.val)
          /\ stack' = Append(SetTop([Top EXCEPT !.tag_name = r.token]),
                             ParseAttributesFrame)
    /\ calls' = calls + 1
    /\ UNCHANGED <<input, source, status, forests, accessed>>

\* parse, Text arm: push a Text node.
ParseText ==
    /\ Running("parse")
    /\ \E r \in {next(source, tz)} :
          /\ ~r.tz.panicked
          /\ r.token.some
          /\ parse_arm(r.token.val.kind) = "text"
          /\ tz' = r.tz
          /\ tokens' = Append(tokens, r.token.val)
          /\ stack' = SetTop([Top EXCEPT !.nodes = Append(@, TextNode(r.token.val))])
    /\ calls' = calls + 1
    /\ UNCHANGED <<input, source, status, forests, accessed>>

\* parse, `_ => {}` arm: the token is dropped.
ParseDiscard ==
    /\ Running("parse")
    /\ \E r \in {next(source, tz)} :
          /\ ~r.tz.panicked
          /\ r.token.some
          /\ parse_arm(r.token.val.kind) = "discard"
          /\ tz' = r.tz
          /\ tokens' = Append(tokens, r.token.val)
    /\ calls' = calls + 1
    /\ UNCHANGED <<input, source, stack, status, forests, accessed>>

\* Mutant: the Element is put before the nodes the caller already has.
ReturnChildren_prepends(children) ==
    Let(stack[Len(stack) - 1], LAMBDA caller :
        Append(SubSeq(stack, 1, Len(stack) - 2),
               [caller EXCEPT !.nodes = <<ElementNode(caller.tag_name.val,
                                                      caller.attributes,
                                                      children)>> \o @,
                              !.tag_name = None,
                              !.attributes = <<>>]))

\* The stack after a recursive parse() has returned children to the TagName
\* arm of its caller, which pushes the Element onto its nodes.
ReturnChildren(children) ==
    Let(stack[Len(stack) - 1], LAMBDA caller :
        Append(SubSeq(stack, 1, Len(stack) - 2),
               [caller EXCEPT !.nodes = Append(@, ElementNode(caller.tag_name.val,
                                                              caller.attributes,
                                                              children)),
                              !.tag_name = None,
                              !.attributes = <<>>]))

\* parse: next() returned nothing, the loop ends and parse returns its nodes,
\* the outermost call to the caller of the Parser.
ParseReturn ==
    /\ Running("parse")
    /\ \E r \in {next(source, tz)} :
          /\ ~r.tz.panicked
          /\ ~r.token.some
          /\ tz' = r.tz
    /\ IF Len(stack) = 1
       THEN /\ status' = "done"
            /\ forests' = Append(forests, Top.nodes)
            /\ stack' = <<>>
       ELSE /\ stack' = ReturnChildren(Top.nodes)
            /\ UNCHANGED <<status, forests>>
    /\ calls' = calls + 1
    /\ UNCHANGED <<input, source, tokens, accessed>>

\* The stack after parse_attributes has returned: its attributes go to the
\* TagName arm of the calling parse, which then calls parse() for the children.
ReturnAttributes(attributes) ==
    Append(Append(SubSeq(stack, 1, Len(stack) - 2),
                  [stack[Len(stack) - 1] EXCEPT !.attributes = attributes]),
           ParseFrame)

\* parse_attributes, AttributeName arm: the name is paired with the token of a
\* second next() call (expect: a panic when there is none).
ParseAttribute ==
    /\ Running("parse_attributes")
    /\ calls + 1 < MaxCalls
    /\ \E r \in {next(source, tz)} :
          /\ ~r.tz.panicked
          /\ r.token.some
          /\ parse_attributes_arm(r.token.val.kind) = "attribute"
          /\ \E v \in {next(source, r.tz)} :
                /\ ~v.tz.panicked
                /\ tz' = v.tz
                /\ IF v.token.some
                   THEN /\ tokens' = tokens \o <<r.token.val, v.token.val>>
                        /\ stack' = SetTop([Top EXCEPT !.attributes =
                                       Append(@, Attribute(r.token.val, v.token.val))])
                        /\ status' = status
                   ELSE /\ tokens' = Append(tokens, r.token.val)
                        /\ stack' = stack
                        /\ status' = "panicked"
    /\ calls' = calls + 2
    /\ UNCHANGED <<input, source, forests, accessed>>

\* parse_attributes, AttributeName arm, when the second next() call panics: the
\* Tokenizer is left as that call left it.
ParseAttributePanic ==
    /\ Running("parse_attributes")
    /\ calls + 1 < MaxCalls
    /\ \E r \in {next(source, tz)} :
          /\ ~r.tz.panicked
          /\ r.token.some
          /\ parse_attributes_arm(r.token.val.kind) = "attribute"
          /\ \E v \in {next(source, r.tz)} :
                /\ v.tz.panicked
                /\ tz' = AfterPanic(v)
          /\ tokens' = Append(tokens, r.token.val)
    /\ status' = "panicked"
    /\ calls' = calls + 2
    /\ UNCHANGED <<input, source, stack, forests, accessed>>

\* parse_attributes: an OpeningTagEnd (break) or the end of the tokens ends the
\* loop and parse_attributes returns; any other token is skipped.
ParseAttributesEnd ==
    /\ Running("parse_attributes")
    /\ \E r \in {next(source, tz)} :
          /\ ~r.tz.panicked
          /\ r.token.some => parse_attributes_arm(r.token.val.kind) # "attribute"
          /\ tz' = r.tz
          /\ tokens' = IF r.token.some THEN Append(tokens, r.token.val) ELSE tokens
          /\ stack' = IF r.token.some /\ parse_attributes_arm(r.token.val.kind) = "skip"
                      THEN stack
                      ELSE ReturnAttributes(Top.attributes)
    /\ calls' = calls + 1
    /\ UNCHANGED <<input, source, status, forests, accessed>>

\* The caller calls parse() again on the same Parser.
ParseAgain ==
    /\ status = "done"
    /\ Len(forests) < MaxParseCalls
    /\ status' = "running"
    /\ stack' = <<ParseFrame>>
    /\ UNCHANGED <<input, source, tz, forests, tokens, calls, accessed>>

\* The caller reads value_text() of an attribute of a root Element of the
\* forest the last parse() returned.
ValueText ==
    /\ status = "done"
    /\ \E i \in 1..Len(forests[Len(forests)]) :
          /\ forests[Len(forests)][i].kind = "Element"
          /\ \E j \in 1..Len(forests[Len(forests)][i].attributes) :
                Let(forests[Len(forests)][i].attributes[j], LAMBDA attribute :
                    accessed' = Some([attribute |-> attribute,
                                      name |-> name_text(attribute),
                                      result |-> value_text(attribute)]))
    /\ UNCHANGED <<input, source, tz, stack, status, forests, tokens, calls>>

Next ==
    \/ Panic
    \/ ParseTagName
    \/ ParseText
    \/ ParseDiscard
    \/ ParseReturn
    \/ ParseAttribute
    \/ ParseAttributePanic
    \/ ParseAttributesEnd
    \/ ParseAgain
    \/ ValueText

Spec == Init /\ [][Next]_vars

\* The steps of a call of parse() that is running: every action but those of
\* the caller (ParseAgain, ValueText).
ParserStep ==
    \/ Panic
    \/ ParseTagName
    \/ ParseText
    \/ ParseDiscard
    \/ ParseReturn
    \/ ParseAttribute
    \/ ParseAttributePanic
    \/ ParseAttributesEnd

\* A running call of parse() takes its next step whenever it has one; the caller
\* is free to stop after any call that returned.
FairSpec == Spec /\ WF_vars(ParserStep)

(***************************************************************************)
(* Views of the state used by the properties                               *)
(***************************************************************************)
\* The first call of parse() has returned.
FirstReturned == status = "done" /\ Len(forests) = 1

\* The first call of parse() is over: it has returned or panicked.
FirstOver == FirstReturned \/ (status = "panicked" /\ forests = <<>>)

\* The forest the first call of parse() returned.
Forest == forests[1]

\* The kind and payload of each token of ts.
KindsOf(ts) == [i \in 1..Len(ts) |-> <<ts[i].kind, ts[i].payload>>]

\* The (name, value) texts of a sequence of Attributes.
PairsOf(attributes) ==
    [i \in 1..Len(attributes) |->
        <<attributes[i].name.span.source, attributes[i].value.span.source>>]

\* s ends in a character of more than one byte.
EndsMultiByte(s) == s # <<>> /\ Utf8Width(s[Len(s)]) > 1

(***************************************************************************)
(* Properties                                                              *)
(***************************************************************************)
\* C1: for every input, Parser::new(input).parse() never panics.
C1_NeverPanics == status # "panicked"

RECURSIVE FrameWeight(_)
\* The next() calls that can return nothing before the frames of st return:
\* two for a parse_attributes frame (its own end, and the end of the parse()
\* called after it), one for a parse frame.
FrameWeight(st) ==
    IF st = <<>> THEN 0
    ELSE (IF Head(st).fn = "parse_attributes" THEN 2 ELSE 1) + FrameWeight(Tail(st))

\* A variant of the parse loops: the characters left (a token takes at least
\* one, but for the AttributeValue that next() owes in AttributeValue mode)
\* and the frames left to return.
Measure ==
    4 * (Len(source) - tz.it)
        + (IF tz.consume_mode = "AttributeValue" THEN 1 ELSE 0)
        + FrameWeight(stack)

\* C2: for every input every call of parse() terminates: each step of a
\* running parse either ends the call or decreases the natural number Measure,
\* so the loops and the recursion all end; and no run is cut short by the
\* model's bound on the calls of next().
C2_Terminates ==
    [][/\ status = "running" => (status' # "running" \/ Measure' < Measure)
       /\ status' = "running" => calls' + 1 < MaxCalls]_vars

\* C2 witness: a parse that recursed and collected attributes has returned.
C2_Witness ==
    /\ FirstReturned
    /\ calls >= 6
    /\ Forest # <<>>
    /\ Forest[1].kind = "Element"
    /\ Forest[1].attributes # <<>>
    /\ Forest[1].children # <<>>

(***************************************************************************)
(* Nested tags, text children, closing tags, whitespace                    *)
(***************************************************************************)
RECURSIVE IsChain(_, _)
\* forest is one Element named names[1] without attributes whose children are
\* the chain of the remaining names (none after the last).
IsChain(forest, names) ==
    /\ Len(forest) = 1
    /\ forest[1].kind = "Element"
    /\ forest[1].tag_name.kind = "TagName"
    /\ forest[1].tag_name.payload = names[1]
    /\ forest[1].attributes = <<>>
    /\ IF Len(names) = 1 THEN forest[1].children = <<>>
       ELSE IsChain(forest[1].children, Tail(names))

\* The nested shapes of the claim: at most as many closing as opening tags.
ClaimedNestedShapes == {d \in NestedShapes : Len(d.closes) <= Len(d.opens)}

\* C3: for <t1>...<tk> followed by j <= k closing tags of any names the
\* forest is the chain t1 > t2 > ... > tk, names kept literally.
C3_NestedChain ==
    (FirstOver /\ input \in NestedInputs) =>
        \A d \in ClaimedNestedShapes :
            input = NestedInput(d) => FirstReturned /\ IsChain(Forest, d.opens)

\* C3 restricted to tag names that end in a one-byte character.
C3_NestedChainOneByte ==
    (FirstOver /\ input \in NestedInputs) =>
        \A d \in ClaimedNestedShapes :
            (input = NestedInput(d) /\ \A i \in 1..Len(d.opens) : ~EndsMultiByte(d.opens[i]))
                => FirstReturned /\ IsChain(Forest, d.opens)

\* forest is one Element named name, without attributes, whose children are
\* the one Text node of text, or none when text is empty.
IsElementWithText(forest, name, text) ==
    /\ Len(forest) = 1
    /\ forest[1].kind = "Element"
    /\ forest[1].tag_name.payload = name
    /\ forest[1].attributes = <<>>
    /\ IF text = <<>> THEN forest[1].children = <<>>
       ELSE /\ Len(forest[1].children) = 1
            /\ forest[1].children[1].kind = "Text"
            /\ forest[1].children[1].token.kind = "Text"
            /\ forest[1].children[1].token.payload = text

\* C4: for <n>t</n> the forest is one Element n without attributes whose
\* children are the one Text node t, or none when t is empty.
C4_ElementText ==
    (FirstOver /\ input \in ElementTextInputs) =>
        \A d \in ElementTextShapes :
            input = ElementTextInput(d)
                => FirstReturned /\ IsElementWithText(Forest, d.name, d.text)

\* C4 restricted to names and texts that end in a one-byte character.
C4_ElementTextOneByte ==
    (FirstOver /\ input \in ElementTextInputs) =>
        \A d \in ElementTextShapes :
            (input = ElementTextInput(d) /\ ~EndsMultiByte(d.name) /\ ~EndsMultiByte(d.text))
                => FirstReturned /\ IsElementWithText(Forest, d.name, d.text)

\* C9: an input that is empty or only whitespace gives the empty forest.
C9_WhitespaceOnly ==
    (FirstOver /\ \A k \in 1..Len(input) : is_whitespace(input[k]))
        => FirstReturned /\ Forest = <<>>

\* C9 witness: parse has returned for an input of several whitespace
\* characters, one of them of two bytes.
C9_Witness ==
    /\ FirstReturned
    /\ Len(input) >= 2
    /\ \A k \in 1..Len(input) : is_whitespace(input[k])
    /\ \E k \in 1..Len(input) : input[k] = NoBreakSpace
    /\ \E k \in 1..Len(input) : input[k] = "\n"

\* C10: an input made of closing tags only gives the empty forest.
C10_ClosersOnly ==
    (FirstOver /\ input \in ClosersInputs) => FirstReturned /\ Forest = <<>>

\* C10 restricted to names that end in a one-byte character.
C10_ClosersOnlyOneByte ==
    (FirstOver /\ input \in ClosersInputs) =>
        \A d \in CloserShapes :
            (input = ClosersInput(d) /\ \A i \in 1..Len(d) : ~EndsMultiByte(d[i]))
                => FirstReturned /\ Forest = <<>>

(***************************************************************************)
(* Attributes                                                              *)
(***************************************************************************)
\* The position of the cursor after the characters of s, from line 0, column 0.
PositionAfter(s) == current_position(move_cursor(s, TokenizerNew, Len(s)))

\* The text of an attribute input up to the end of its i-th attribute.
AttrPrefix(d, i) ==
    <<"<", "t">> \o Flatten([j \in 1..i |-> <<" ">> \o AttrText(d.attrs[j])])

\* The token kinds and payloads of the opening tag <t A1 ... Am>.
ExpectedKinds(attrs) ==
    << <<"TagName", <<"t">>>> >>
        \o Flatten([i \in 1..Len(attrs) |->
                       << <<"AttributeName", attrs[i].name>>,
                          <<"AttributeValue", attrs[i].value>> >>])
        \o << <<"OpeningTagEnd", <<>>>> >>

\* The (name, value) texts of the attributes A1 ... Am.
ExpectedPairs(attrs) == [i \in 1..Len(attrs) |-> <<attrs[i].name, attrs[i].value>>]

\* The scanner panics on the attribute: its value ends in a multi-byte character.
PanicsOn(at) == EndsMultiByte(at.value)

\* The tokens 2i and 2i+1 are the name and the value of the i-th attribute.
AttrTokens(d, i) ==
    /\ Len(tokens) >= 2 * i + 1
    /\ tokens[2 * i].kind = "AttributeName"
    /\ tokens[2 * i].payload = d.attrs[i].name
    /\ tokens[2 * i + 1].kind = "AttributeValue"
    /\ tokens[2 * i + 1].payload = d.attrs[i].value
    /\ tokens[2 * i + 1].span.source = d.attrs[i].value

\* The token after the i-th attribute is the next attribute's name or the
\* OpeningTagEnd, and it starts at the first character after the attribute
\* that is neither whitespace nor the self-closing mark.
NextTokenAfter(d, i) ==
    /\ Len(tokens) >= 2 * i + 2
    /\ IF i < Len(d.attrs)
       THEN /\ tokens[2 * i + 2].kind = "AttributeName"
            /\ tokens[2 * i + 2].payload = d.attrs[i + 1].name
            /\ tokens[2 * i + 2].span.range.start = PositionAfter(AttrPrefix(d, i) \o <<" ">>)
       ELSE /\ tokens[2 * i + 2].kind = "OpeningTagEnd"
            /\ tokens[2 * i + 2].span.range.start = PositionAfter(AttrPrefix(d, i) \o d.mark)

\* The forest is the one Element t whose i-th attribute is the i-th of d.
AttrRecorded(d, i) ==
    /\ FirstReturned
    /\ Len(Forest) = 1
    /\ Forest[1].kind = "Element"
    /\ Len(Forest[1].attributes) = Len(d.attrs)
    /\ PairsOf(Forest[1].attributes)[i] = <<d.attrs[i].name, d.attrs[i].value>>

\* The attributes of d other than the i-th do not make the scanner panic.
OthersScan(d, i) == \A j \in 1..Len(d.attrs) : j # i => ~PanicsOn(d.attrs[j])

\* C5: for an attribute a="v" or a='v' the scanner emits AttributeName a and
\* AttributeValue v without the quotes, the next token starts after the
\* closing quote, and the builder records the one Attribute (a, v).
C5_QuotedValue ==
    (FirstOver /\ input \in AttrInputs) =>
        \A d \in AttrShapes : \A i \in 1..Len(d.attrs) :
            (input = AttrInput(d) /\ d.attrs[i].form \in {"double", "single"}
                /\ OthersScan(d, i))
                => AttrTokens(d, i) /\ NextTokenAfter(d, i) /\ AttrRecorded(d, i)

\* C5 restricted to values that end in a one-byte character.
C5_QuotedValueOneByte ==
    (FirstOver /\ input \in AttrInputs) =>
        \A d \in AttrShapes : \A i \in 1..Len(d.attrs) :
            (input = AttrInput(d) /\ d.attrs[i].form \in {"double", "single"}
                /\ OthersScan(d, i) /\ ~PanicsOn(d.attrs[i]))
                => AttrTokens(d, i) /\ NextTokenAfter(d, i) /\ AttrRecorded(d, i)

\* C7: for an attribute a=v with v unquoted the value is the run up to the
\* next whitespace, ">" or "/", a point span when the run is empty; the ">"
\* is still an OpeningTagEnd and the Element has the attribute.
C7_UnquotedValue ==
    (FirstOver /\ input \in AttrInputs) =>
        \A d \in AttrShapes : \A i \in 1..Len(d.attrs) :
            (input = AttrInput(d) /\ d.attrs[i].form = "unquoted" /\ OthersScan(d, i))
                => /\ AttrTokens(d, i)
                   /\ d.attrs[i].value = <<>> =>
                          tokens[2 * i + 1].span.range.start = tokens[2 * i + 1].span.range.end
                   /\ NextTokenAfter(d, i)
                   /\ tokens[Len(tokens)].kind = "OpeningTagEnd"
                   /\ AttrRecorded(d, i)

\* C7 restricted to values that end in a one-byte character.
C7_UnquotedValueOneByte ==
    (FirstOver /\ input \in AttrInputs) =>
        \A d \in AttrShapes : \A i \in 1..Len(d.attrs) :
            (input = AttrInput(d) /\ d.attrs[i].form = "unquoted" /\ OthersScan(d, i)
                /\ ~PanicsOn(d.attrs[i]))
                => /\ AttrTokens(d, i)
                   /\ d.attrs[i].value = <<>> =>
                          tokens[2 * i + 1].span.range.start = tokens[2 * i + 1].span.range.end
                   /\ NextTokenAfter(d, i)
                   /\ tokens[Len(tokens)].kind = "OpeningTagEnd"
                   /\ AttrRecorded(d, i)

\* C6: for an attribute name not followed by "=" the value token is the empty
\* point span at the end of the name (nothing is consumed), and the tag is
\* scanned on normally: the tokens are the tag name, each attribute's name and
\* value in order and the OpeningTagEnd, and the Element gets the attributes
\* in that order.
C6_BareAttribute ==
    (FirstOver /\ input \in AttrInputs) =>
        \A d \in AttrShapes : \A i \in 1..Len(d.attrs) :
            (input = AttrInput(d) /\ d.attrs[i].form = "bare"
                /\ \A j \in 1..(i - 1) : ~PanicsOn(d.attrs[j]))
                => /\ AttrTokens(d, i)
                   /\ tokens[2 * i + 1].span = point(tokens[2 * i].span.range.end)
                   /\ tokens[2 * i].span.range.end = PositionAfter(AttrPrefix(d, i))
                   /\ OthersScan(d, i) =>
                         /\ KindsOf(tokens) = ExpectedKinds(d.attrs)
                         /\ AttrRecorded(d, i)
                         /\ PairsOf(Forest[1].attributes) = ExpectedPairs(d.attrs)

\* C6 witness: <t a b1=v> has been parsed.
C6_Witness ==
    /\ FirstReturned
    /\ input = <<"<", "t", " ", "a", " ", "b", "1", "=", "v", ">">>
    /\ PairsOf(Forest[1].attributes) = << <<<<"a">>, <<>>>>, <<<<"b", "1">>, <<"v">>>> >>

\* The tokens the scanner emits for the attributes before it panics: those of
\* the attributes up to the first whose value ends in a multi-byte character,
\* and the name of that one.
RECURSIVE KindsBeforePanic(_)
KindsBeforePanic(attrs) ==
    IF attrs = <<>> THEN <<>>
    ELSE IF PanicsOn(Head(attrs)) THEN << <<"AttributeName", Head(attrs).name>> >>
    ELSE << <<"AttributeName", Head(attrs).name>>, <<"AttributeValue", Head(attrs).value>> >>
             \o KindsBeforePanic(Tail(attrs))

\* C8: the self-closing mark changes nothing: <t L/>, <t L /> and <t L> give
\* the same tokens and the same Element attributes, which depend on L alone
\* (a run that panics does so for all three, after the same tokens).
C8_SelfClosing ==
    (FirstOver /\ input \in AttrInputs) =>
        \A d \in AttrShapes :
            input = AttrInput(d) =>
                IF \E i \in 1..Len(d.attrs) : PanicsOn(d.attrs[i])
                THEN /\ status = "panicked"
                     /\ KindsOf(tokens) =
                            << <<"TagName", <<"t">>>> >> \o KindsBeforePanic(d.attrs)
                ELSE /\ FirstReturned
                     /\ KindsOf(tokens) = ExpectedKinds(d.attrs)
                     /\ Len(Forest) = 1
                     /\ Forest[1].kind = "Element"
                     /\ PairsOf(Forest[1].attributes) = ExpectedPairs(d.attrs)
                     /\ Forest[1].children = <<>>

\* C8 witness: <t a="v" b1=v /> has been parsed into an Element of two attributes.
C8_Witness ==
    /\ FirstReturned
    /\ input = <<"<", "t", " ", "a", "=", "\"", "v", "\"", " ", "b", "1", "=", "v", " ",
                 "/", ">">>
    /\ Len(Forest[1].attributes) = 2
    /\ tokens[Len(tokens)].kind = "OpeningTagEnd"

(***************************************************************************)
(* Comments, DOCTYPE, multi-byte text, value_text                          *)
(***************************************************************************)
\* C11: comments and DOCTYPE give no node: <!-- comment --> gives the empty
\* forest and <!DOCTYPE html><html></html> gives exactly one root, the
\* Element html.
C11_CommentsDoctype ==
    /\ (FirstOver /\ input = DocComment) => FirstReturned /\ Forest = <<>>
    /\ (FirstOver /\ input = DocDoctype) =>
           /\ FirstReturned
           /\ Len(Forest) = 1
           /\ Forest[1].kind = "Element"
           /\ Forest[1].tag_name.kind = "TagName"
           /\ Forest[1].tag_name.payload = <<"h", "t", "m", "l">>

\* What the code does with them: the tag rules apply, "!--" and "!DOCTYPE"
\* are tag names, the words after them bare attributes, and the Element
\* html is the child of the Element !DOCTYPE.
C11_GenericTags ==
    /\ (FirstOver /\ input = DocComment) =>
           /\ FirstReturned
           /\ Len(Forest) = 1
           /\ Forest[1].kind = "Element"
           /\ Forest[1].tag_name.payload = <<"!", "-", "-">>
           /\ PairsOf(Forest[1].attributes) =
                  << <<<<"c", "o", "m", "m", "e", "n", "t">>, <<>>>>,
                     <<<<"-", "-">>, <<>>>> >>
           /\ Forest[1].children = <<>>
    /\ (FirstOver /\ input = DocDoctype) =>
           /\ FirstReturned
           /\ Len(Forest) = 1
           /\ Forest[1].kind = "Element"
           /\ Forest[1].tag_name.payload = <<"!", "D", "O", "C", "T", "Y", "P", "E">>
           /\ PairsOf(Forest[1].attributes) = << <<<<"h", "t", "m", "l">>, <<>>>> >>
           /\ IsChain(Forest[1].children, << <<"h", "t", "m", "l">> >>)

\* The texts T of the inputs <n>T</n> that are non-empty runs of multi-byte
\* characters.
IsMultiByteRun(t) == t # <<>> /\ \A k \in 1..Len(t) : Utf8Width(t[k]) > 1

\* C12: for <p>T</p> with T a non-empty run of multi-byte characters the
\* forest is one Element whose one child is the Text T, whole and literal.
C12_MultiByteText ==
    /\ (FirstOver /\ input = DocUnicode) =>
           FirstReturned /\ IsElementWithText(Forest, <<"p">>, <<"é", "ü">>)
    /\ (FirstOver /\ input \in ElementTextInputs) =>
           \A d \in ElementTextShapes :
               (input = ElementTextInput(d) /\ IsMultiByteRun(d.text)
                   /\ ~EndsMultiByte(d.name))
                   => FirstReturned /\ IsElementWithText(Forest, d.name, d.text)

\* What the code does on those inputs: the run panics after the tag name and
\* the OpeningTagEnd, when the text is scanned.
C12_PanicsOnText ==
    (FirstOver /\ input = DocUnicode) =>
        /\ status = "panicked"
        /\ KindsOf(tokens) = << <<"TagName", <<"p">>>>, <<"OpeningTagEnd", <<>>>> >>

\* v begins and ends with the same quote character (two characters at least).
SurroundedByQuotes(v) ==
    /\ Len(v) >= 2
    /\ v[1] \in {"\"", "'"}
    /\ v[Len(v)] = v[1]

\* C13: value_text of an attribute the builder produced is the value text
\* without its first and last character when these are the same quote
\* character, and the value text unchanged in every other case.
C13_ValueText ==
    accessed.some =>
        Let(accessed.val.attribute.value.span.source, LAMBDA v :
            /\ accessed.val.result.ok
            /\ accessed.val.result.text =
                   IF SurroundedByQuotes(v) THEN SubSeq(v, 2, Len(v) - 1) ELSE v)

\* What the code does: a value that begins with a quote character loses its
\* first and last character, whatever the last is (a panic when the value is
\* the one quote character); any other value is returned unchanged.
C13_StripsFirstAndLast ==
    accessed.some =>
        Let(accessed.val.attribute.value.span.source, LAMBDA v :
            IF v # <<>> /\ v[1] \in {"\"", "'"}
            THEN IF Len(v) = 1 THEN ~accessed.val.result.ok
                 ELSE /\ accessed.val.result.ok
                      /\ accessed.val.result.text = SubSeq(v, 2, Len(v) - 1)
            ELSE /\ accessed.val.result.ok
                 /\ accessed.val.result.text = v)

(***************************************************************************)
(* Spans: positions and texts                                              *)
(***************************************************************************)
\* The character at offset k of src (the k+1-th), "" at the end.
At(src, k) == IF k < Len(src) THEN src[k + 1] ELSE ""

\* The offset reached from offset k by passing the whitespace found there.
AfterWhitespace(src, k) ==
    CHOOSE m \in k..Len(src) :
        /\ \A j \in (k + 1)..m : is_whitespace(src[j])
        /\ (m = Len(src) \/ ~is_whitespace(src[m + 1]))

\* The offset of the first character of the token that a call of next() made
\* at offset it in the given mode returns (for a point span: the offset of the
\* cursor where it is made): a tag's name follows "<", an optional "/" and
\* whitespace; a text starts at once; in a tag, whitespace and an optional "/"
\* are passed, then ">" is the token, or else more whitespace and the
\* attribute's name; a value follows an optional "=" and an optional quote,
\* and an empty quoted value is made after its closing quote.
TokenStart(src, it, mode) ==
    CASE mode = "OutsideTag" ->
             IF At(src, it) = "<"
             THEN AfterWhitespace(src, IF At(src, it + 1) = "/" THEN it + 2 ELSE it + 1)
             ELSE it
      [] mode = "AttributeName" ->
             Let(AfterWhitespace(src, it), LAMBDA k :
             Let(IF At(src, k) = "/" THEN k + 1 ELSE k, LAMBDA k2 :
                 IF At(src, k2) = ">" THEN k2 ELSE AfterWhitespace(src, k2)))
      [] mode = "AttributeValue" ->
             IF At(src, it) # "=" THEN it
             ELSE IF At(src, it + 1) \in {"\"", "'"}
                  THEN (IF At(src, it + 2) = At(src, it + 1) THEN it + 3 ELSE it + 2)
                  ELSE it + 1

\* In a step that emits tokens, the offset of the first character of the n-th
\* token of tokens': the first new token comes from the cursor of the step,
\* the second (the value paired with a name by parse_attributes) from the end
\* of the name.
NewTokenStart(n) ==
    IF n = Len(tokens) + 1
    THEN TokenStart(source, tz.it, tz.consume_mode)
    ELSE TokenStart(source,
                    TokenStart(source, tz.it, tz.consume_mode)
                        + Len(tokens'[Len(tokens) + 1].span.source),
                    "AttributeValue")

\* The position the rule "newline: line + 1, column 0; any other character:
\* column + 1" gives after the characters of s: the line is the number of
\* newlines of s, the column the number of characters after the last one.
RulePosition(s) ==
    LET newlines == {k \in 1..Len(s) : s[k] = "\n"}
    IN Position(Cardinality(newlines),
                Cardinality({k \in 1..Len(s) : \A m \in newlines : m < k}))

\* C14: the start position of the span of every token the scanner emits is
\* the position the rule gives for the characters of the input before the
\* token's first character (for a point span: before the cursor where it is
\* made); so its start line is the number of newlines before the token.
C14_StartPositions ==
    [][\A n \in (Len(tokens) + 1)..Len(tokens') :
          /\ tokens'[n].span.range.start
                 = RulePosition(SubSeq(source, 1, NewTokenStart(n)))
          /\ tokens'[n].span.range.start.line
                 = Cardinality({k \in 1..NewTokenStart(n) : source[k] = "\n"})]_vars

\* C14 witness: the text x of the four-line document was emitted, after two
\* newlines and two characters of its line.
C14_Witness ==
    /\ FirstReturned
    /\ input = DocLines
    /\ \E n \in 1..Len(tokens) :
          /\ tokens[n].kind = "Text"
          /\ tokens[n].payload = <<"x">>
          /\ tokens[n].span.range.start = Position(2, 2)
    /\ \E n \in 1..Len(tokens) :
          /\ tokens[n].kind = "AttributeValue"
          /\ tokens[n].payload = <<"\n">>
          /\ tokens[n].span.range.start = Position(1, 6)

\* The concatenation of the span texts of the tokens ts, in order.
SpanTexts(ts) == Flatten([i \in 1..Len(ts) |-> ts[i].span.source])

\* The terminator characters C15 names as discarded.
Terminators == {"\"", "'", ">", "/"}

\* The characters the scanner passes without putting them in a span.
Discardable == Terminators \cup {"<", "=", " ", "\n", "\t", NoBreakSpace}

RECURSIVE IsDeletion(_, _, _)
\* t is s with some of its characters that are in D removed: every other
\* character of s is in t, once and in order.
IsDeletion(t, s, D) ==
    IF s = <<>> THEN t = <<>>
    ELSE \/ (t # <<>> /\ Head(t) = Head(s) /\ IsDeletion(Tail(t), Tail(s), D))
         \/ (Head(s) \in D /\ IsDeletion(t, Tail(s), D))

\* C15 as stated: the span texts of all the tokens the scanner emits for an
\* input, concatenated in emission order, are the scanner's input with only
\* quotes, ">" and "/" removed: no other character is lost, none is duplicated.
C15_SpanTextsAreInput ==
    FirstOver => IsDeletion(SpanTexts(tokens), source, Terminators)

\* C15 with every mark the scanner passes over ("<", "=", whitespace) added to
\* the list: it fails all the same, on the inputs where next() returns nothing
\* before the end of the input or panics.
C15_WithEveryDiscardedMark ==
    FirstOver => IsDeletion(SpanTexts(tokens), source, Discardable)

\* Where the scanner reached the end of its input without a panic, the span
\* texts are the whole input with only Discardable characters removed.
C15_WholeWhenScannedToEnd ==
    (FirstReturned /\ tz.it = Len(source)) =>
        IsDeletion(SpanTexts(tokens), source, Discardable)

\* The span texts lose a character that no list of marks explains: the scanner
\* stopped before the end of the input, or a call of next() panicked.
C15_LosesOnlyByStopOrPanic ==
    (FirstOver /\ ~IsDeletion(SpanTexts(tokens), source, Discardable)) =>
        (status = "panicked" \/ tz.it < Len(source))

(***************************************************************************)
(* Trimming, identifiers                                                   *)
(***************************************************************************)
RECURSIVE TrimStart(_)
\* s without its leading whitespace characters.
TrimStart(s) == IF s # <<>> /\ is_whitespace(Head(s)) THEN TrimStart(Tail(s)) ELSE s

RECURSIVE TrimEnd(_)
\* s without its trailing whitespace characters.
TrimEnd(s) ==
    IF s # <<>> /\ is_whitespace(s[Len(s)]) THEN TrimEnd(SubSeq(s, 1, Len(s) - 1)) ELSE s

\* C16: Parser::new removes the leading and trailing whitespace of the buffer
\* and nothing else, once: the scanner's buffer is s without them, and
\* trimming it again changes nothing, so Parser::new(trim(s)) scans the same
\* buffer as Parser::new(s) and parse(), which reads the buffer only,
\* returns the same; a Text that starts the buffer does not begin with
\* whitespace, a Text that ends it does not end with whitespace, and the
\* whitespace of a text between tags is kept as it is.
C16_TrimOnce ==
    /\ source = TrimEnd(TrimStart(input))
    /\ trim(source) = source
    /\ FirstReturned =>
          /\ (tokens # <<>> /\ tokens[1].kind = "Text") =>
                 /\ Forest[1] = TextNode(tokens[1])
                 /\ ~is_whitespace(tokens[1].payload[1])
          /\ (tokens # <<>> /\ tokens[Len(tokens)].kind = "Text") =>
                 /\ tz.it = Len(source)
                 /\ ~is_whitespace(tokens[Len(tokens)].payload[Len(tokens[Len(tokens)].payload)])
          /\ \A d \in ElementTextShapes :
                 input = ElementTextInput(d) => IsElementWithText(Forest, d.name, d.text)
          /\ input = DocPadded => IsElementWithText(Forest, <<"a">>, <<" ", "x", " ">>)

\* C16 witness: the padded document was parsed.
C16_Witness ==
    /\ FirstReturned
    /\ input = DocPadded
    /\ source = <<"<", "a", ">", " ", "x", " ", "<", "/", "a", ">">>
    /\ Forest[1].children[1].token.payload = <<" ", "x", " ">>

\* The characters of a name: any but "=", "/", ">" and whitespace.
NameChar(c) == c \notin {"=", "/", ">"} /\ ~is_whitespace(c)

\* The text of the n-th token of tokens' is the longest run of name characters
\* that starts at its offset k, and it is the token's name.
IsMaximalName(n, k) ==
    Let(tokens'[n].span.source, LAMBDA text :
        /\ tokens'[n].payload = text
        /\ text = SubSeq(source, k + 1, k + Len(text))
        /\ \A j \in 1..Len(text) : NameChar(text[j])
        /\ (k + Len(text) = Len(source) \/ ~NameChar(source[k + Len(text) + 1])))

\* C17: every tag name and attribute name the scanner emits is the maximal
\* run of characters other than "=", "/", ">" and whitespace found at its
\* start, an attribute name is not empty, and digits, hyphens and other
\* punctuation are name characters: <tag 1attr=value> gives the AttributeName
\* 1attr and <custom-element> the TagName custom-element.
C17_IdentifierRuns ==
    [][/\ \A n \in (Len(tokens) + 1)..Len(tokens') :
             tokens'[n].kind \in {"TagName", "TagEnd", "AttributeName"} =>
                 /\ IsMaximalName(n, NewTokenStart(n))
                 /\ tokens'[n].kind = "AttributeName" => tokens'[n].payload # <<>>
       /\ (input = DocNumberAttr /\ Len(tokens') >= 2) =>
             KindsOf(tokens')[2] = <<"AttributeName", <<"1", "a", "t", "t", "r">>>>
       /\ (input = DocCustomElement /\ Len(tokens') >= 1) =>
             KindsOf(tokens')[1] =
                 <<"TagName", <<"c", "u", "s", "t", "o", "m", "-", "e", "l", "e", "m", "e",
                                "n", "t">>>>]_vars

\* C17 witness: <tag 1attr=value> was scanned.
C17_Witness ==
    /\ FirstReturned
    /\ input = DocNumberAttr
    /\ KindsOf(tokens) =
           << <<"TagName", <<"t", "a", "g">>>>,
              <<"AttributeName", <<"1", "a", "t", "t", "r">>>>,
              <<"AttributeValue", <<"v", "a", "l", "u", "e">>>>,
              <<"OpeningTagEnd", <<>>>> >>

(***************************************************************************)
(* The token stream: attribute pairs, exhaustion                           *)
(***************************************************************************)
\* In the token stream ts every AttributeName is followed by an
\* AttributeValue and every AttributeValue follows an AttributeName.
NamesPairedWithValues(ts) ==
    \A i \in 1..Len(ts) :
        /\ ts[i].kind = "AttributeName" =>
               i < Len(ts) /\ ts[i + 1].kind = "AttributeValue"
        /\ ts[i].kind = "AttributeValue" =>
               i > 1 /\ ts[i - 1].kind = "AttributeName"

\* C18: in every token stream of the scanner each AttributeName is followed
\* at once by one AttributeValue and each AttributeValue follows an
\* AttributeName: the call of next() in AttributeValue mode always returns a
\* token and puts the mode back to AttributeName.
C18_NameValuePairs ==
    /\ status # "running" => NamesPairedWithValues(tokens)
    /\ tz.consume_mode = "AttributeValue" =>
           /\ tokens # <<>>
           /\ tokens[Len(tokens)].kind = "AttributeName"
           /\ next(source, tz).token.some
           /\ next(source, tz).token.val.kind = "AttributeValue"
           /\ next(source, tz).tz.consume_mode = "AttributeName"

\* What the code does: the streams of the runs that return are paired, and a
\* run panics only inside next(), never at the expect of parse_attributes;
\* the stream of a run that panics is paired up to a last AttributeName.
C18_PairsUnlessPanic ==
    [][/\ status' = "done" => NamesPairedWithValues(tokens')
       /\ status' = "panicked" =>
             /\ \/ next(source, tz).tz.panicked
                \/ next(source, next(source, tz).tz).tz.panicked
             /\ \/ NamesPairedWithValues(tokens')
                \/ /\ tokens'[Len(tokens')].kind = "AttributeName"
                   /\ NamesPairedWithValues(SubSeq(tokens', 1, Len(tokens') - 1))]_vars

\* C19: whenever next() returns nothing the cursor is at the end of the
\* input; so parse() never returns while a part of the input is not scanned.
C19_NoneAtEnd ==
    [][(calls' > calls /\ tokens' = tokens /\ status' # "panicked")
           => tz'.it = Len(source)]_vars

\* Where the code returns nothing before the end: in a tag, at a character
\* that is neither ">" nor a name character, that is at "=" or at a "/" that
\* follows a "/" it has just passed (or whitespace and a "/").
C19_NoneInsideTag ==
    [][(calls' > calls /\ tokens' = tokens /\ status' # "panicked"
            /\ tz'.it < Len(source))
           => /\ tz'.consume_mode = "AttributeName"
              /\ source[tz'.it + 1] \in {"=", "/"}]_vars

\* C20: exhaustion is permanent.  Once parse() has returned, next() having
\* returned nothing, no later call of next() returns a token or moves the
\* cursor or changes the mode, and a second parse() returns the empty forest.
C20_ExhaustionPermanent ==
    [][Len(forests) >= 1 =>
          /\ tz' = tz
          /\ tokens' = tokens
          /\ Len(forests') > Len(forests) => forests'[Len(forests')] = <<>>]_vars

\* What the code does: at the end of the input, outside AttributeValue mode
\* (where one last point value is owed), every call of next() returns nothing
\* and changes neither the cursor nor the mode.
C20_PermanentAtEnd ==
    [][(tz.it = Len(source) /\ tz.consume_mode # "AttributeValue") =>
          /\ tz' = tz
          /\ tokens' = tokens]_vars

(***************************************************************************)
(* The forest: siblings, depth, nodes, order                               *)
(***************************************************************************)
RECURSIVE ElementsAreLast(_)
\* In nodes and below, an Element is the last node of its sibling sequence.
ElementsAreLast(nodes) ==
    \A i \in 1..Len(nodes) :
        nodes[i].kind = "Element" =>
            i = Len(nodes) /\ ElementsAreLast(nodes[i].children)

\* C21: the child-collection call of an Element drains the scanner, so in
\* every forest, at every level, an Element is the last of its siblings;
\* <a></a><b></b> gives the one root a whose one child is b.
C21_ElementIsLast ==
    /\ \A f \in 1..Len(forests) : ElementsAreLast(forests[f])
    /\ (FirstOver /\ input = DocSiblings) =>
           FirstReturned /\ IsChain(Forest, << <<"a">>, <<"b">> >>)

\* What the code does on the inputs without a stray "=" or "/" in a tag: the
\* Elements are last, and a TagEnd leaves the call stack as it is.
C21_LastWhenDrained ==
    [][/\ (status' = "done" /\ input \in NestedInputs \cup ElementTextInputs
                                    \cup ClosersInputs \cup AttrInputs \cup {DocSiblings})
             => \A f \in 1..Len(forests') : ElementsAreLast(forests'[f])
       /\ (Len(tokens') = Len(tokens) + 1 /\ tokens'[Len(tokens')].kind = "TagEnd")
             => stack' = stack]_vars

\* The number of active calls of parse().
ParseDepth == Cardinality({i \in 1..Len(stack) : stack[i].fn = "parse"})

RECURSIVE MaxOpenFrom(_, _, _)
\* The greatest number of tags open at once in the token stream ts, starting
\* with open tags open and best the greatest number so far: a TagName opens
\* a tag, a TagEnd closes one.
MaxOpenFrom(ts, open, best) ==
    IF ts = <<>> THEN best
    ELSE IF Head(ts).kind = "TagName"
         THEN MaxOpenFrom(Tail(ts), open + 1, IF open + 1 > best THEN open + 1 ELSE best)
    ELSE IF Head(ts).kind = "TagEnd" /\ open > 0
         THEN MaxOpenFrom(Tail(ts), open - 1, best)
    ELSE MaxOpenFrom(Tail(ts), open, best)

\* C22 as stated: at every moment the number of active parse() calls is at
\* most 1 plus the greatest number of tags open at once in the input read.
C22_DepthBoundedByNesting ==
    ParseDepth <= 1 + MaxOpenFrom(tokens, 0, 0)

\* The number of opening tags read so far.
OpeningTagsRead == Cardinality({i \in 1..Len(tokens) : tokens[i].kind = "TagName"})

\* C22 amended: at every moment the number of active parse() calls is at most
\* 1 plus the number of opening tags read so far; closing tags do not lower it.
C22_DepthBoundedByOpeningTags ==
    ParseDepth <= 1 + OpeningTagsRead

\* C22 witness: in <a></a><b></b>, after both closing tags were read, three
\* calls of parse() are active.
C22_Witness ==
    /\ input = DocSiblings
    /\ status = "running"
    /\ ParseDepth = 3
    /\ OpeningTagsRead = 2
    /\ tokens[Len(tokens)].kind = "TagEnd"
    /\ tokens[Len(tokens)].payload = <<"b">>

RECURSIVE Walk(_)
\* The tokens of the nodes in pre-order: a Text's token; an Element's tag
\* name, then the name and value of each attribute, then its children.
Walk(nodes) ==
    IF nodes = <<>> THEN <<>>
    ELSE (IF Head(nodes).kind = "Text" THEN <<Head(nodes).token>>
          ELSE <<Head(nodes).tag_name>>
                   \o Flatten([i \in 1..Len(Head(nodes).attributes) |->
                                  <<Head(nodes).attributes[i].name,
                                    Head(nodes).attributes[i].value>>])
                   \o Walk(Head(nodes).children))
         \o Walk(Tail(nodes))

\* The tokens of all the forests returned so far, in pre-order.
WalkAll == Flatten([f \in 1..Len(forests) |-> Walk(forests[f])])

\* The tokens of ts whose kind is in kinds.
OfKinds(ts, kinds) == SelectSeq(ts, LAMBDA t : t.kind \in kinds)

\* C23: when parse() has returned, the forests hold exactly one Element for
\* each TagName token pulled and one Text node for each Text token pulled,
\* built from these tokens; no other token pulled by parse() makes a node;
\* and parse_attributes, called in AttributeName mode, pulls an AttributeName,
\* an OpeningTagEnd or nothing, never a TagName or a Text.
C23_NodePerToken ==
    /\ status = "done" =>
           /\ OfKinds(WalkAll, {"TagName"}) = OfKinds(tokens, {"TagName"})
           /\ OfKinds(WalkAll, {"Text"}) = OfKinds(tokens, {"Text"})
           /\ OfKinds(WalkAll, {"TagEnd", "OpeningTagEnd"}) = <<>>
    /\ (status = "running" /\ Top.fn = "parse_attributes") =>
           /\ tz.consume_mode = "AttributeName"
           /\ next(source, tz).token.some =>
                  next(source, tz).token.val.kind \in {"AttributeName", "OpeningTagEnd"}

\* C23 witness: <a //b>x was parsed: parse() pulled b, its value and ">" at
\* node position, and the forest has the Element a and the Text x only.
C23_Witness ==
    /\ FirstReturned
    /\ input = DocSlashes
    /\ KindsOf(tokens) = << <<"TagName", <<"a">>>>, <<"AttributeName", <<"b">>>>,
                            <<"AttributeValue", <<>>>>, <<"OpeningTagEnd", <<>>>>,
                            <<"Text", <<"x">>>> >>
    /\ KindsOf(WalkAll) = << <<"TagName", <<"a">>>>, <<"Text", <<"x">>>> >>

RECURSIVE IsOrderedIn(_, _)
\* w is the token stream ts with some of its tokens removed, none of them a
\* TagName or a Text.
IsOrderedIn(w, ts) ==
    IF ts = <<>> THEN w = <<>>
    ELSE \/ (w # <<>> /\ Head(w) = Head(ts) /\ IsOrderedIn(Tail(w), Tail(ts)))
         \/ (Head(ts).kind \notin {"TagName", "Text"} /\ IsOrderedIn(w, Tail(ts)))

\* C24: every forest is in document order: the pre-order walk, in which an
\* Element's attributes come after its tag name and before its first child,
\* visits the tokens in the order the scanner emitted them, and passes no
\* TagName and no Text.
C24_DocumentOrder ==
    status = "done" => IsOrderedIn(WalkAll, tokens)

\* C24 witness: the four-line document was parsed: a text, then an Element
\* with an attribute and a child, then a text.
C24_Witness ==
    /\ FirstReturned
    /\ input = DocLines
    /\ KindsOf(Walk(Forest)) =
           << <<"TagName", <<"a">>>>, <<"Text", <<"\n">>>>, <<"TagName", <<"b">>>>,
              <<"AttributeName", <<"c">>>>, <<"AttributeValue", <<"\n">>>>,
              <<"Text", <<"x">>>>, <<"Text", <<"\n">>>> >>

(***************************************************************************)
(* Spans as regions, tag names, texts, declarations                        *)
(***************************************************************************)
\* The position reached from pos after the characters of s.
Advance(pos, s) ==
    IF RulePosition(s).line = 0
    THEN Position(pos.line, pos.column + RulePosition(s).column)
    ELSE Position(pos.line + RulePosition(s).line, RulePosition(s).column)

\* The span is the region of its text: it ends where its text ends, so
\* start = end exactly when the text is empty.
IsRegion(span) ==
    /\ span.range.end = Advance(span.range.start, span.source)
    /\ span.range.start = span.range.end <=> span.source = <<>>

\* C25: the span of every token is exactly the region of its text: the end
\* position is the start position advanced over the text, so start = end if
\* and only if the text is empty, for all six kinds of token.
C25_SpanIsRegion ==
    \A n \in 1..Len(tokens) : IsRegion(tokens[n].span)

\* What the code does: the spans of the five other kinds are regions; the
\* span of an OpeningTagEnd has the text ">" and start = end.
C25_RegionButOpeningTagEnd ==
    \A n \in 1..Len(tokens) :
        IF tokens[n].kind = "OpeningTagEnd"
        THEN /\ tokens[n].span.source = <<">">>
             /\ tokens[n].span.range.start = tokens[n].span.range.end
        ELSE IsRegion(tokens[n].span)

\* The step emits a tag token whose name is scanned from offset k: the name
\* is the maximal run of name characters at k (a point span when empty); a
\* closing tag passes a ">" that follows the name at once and leaves the mode
\* OutsideTag, an opening tag sets the mode AttributeName.
TagScannedFrom(n, k) ==
    /\ tz.consume_mode = "OutsideTag"
    /\ At(source, tz.it) = "<"
    /\ tokens'[n].kind = "TagEnd" <=> At(source, tz.it + 1) = "/"
    /\ IsMaximalName(n, k)
    /\ tokens'[n].payload = <<>> =>
           tokens'[n].span = point(RulePosition(SubSeq(source, 1, k)))
    /\ IF tokens'[n].kind = "TagEnd"
       THEN /\ tz'.consume_mode = "OutsideTag"
            /\ tz'.it = k + Len(tokens'[n].payload)
                          + (IF At(source, k + Len(tokens'[n].payload)) = ">" THEN 1 ELSE 0)
       ELSE /\ tz'.consume_mode = "AttributeName"
            /\ tz'.it = k + Len(tokens'[n].payload)

\* The offset after the marker "<" or "</" at the cursor.
AfterMarker == IF At(source, tz.it + 1) = "/" THEN tz.it + 2 ELSE tz.it + 1

\* C26: the name of a tag is the maximal run of identifier characters that
\* begins at the character right after the marker "<" or "</", empty (a point
\* span) when that character is not an identifier character; a closing tag
\* passes a ">" only when it is the very next character and leaves the mode
\* OutsideTag, an opening tag sets the mode AttributeName.
C26_TagNameAfterMarker ==
    [][\A n \in (Len(tokens) + 1)..Len(tokens') :
          tokens'[n].kind \in {"TagName", "TagEnd"} => TagScannedFrom(n, AfterMarker)]_vars

\* What the code does: whitespace after the marker is passed first, and the
\* name is the run of identifier characters that begins after it.
C26_TagNameAfterWhitespace ==
    [][\A n \in (Len(tokens) + 1)..Len(tokens') :
          tokens'[n].kind \in {"TagName", "TagEnd"} =>
              TagScannedFrom(n, AfterWhitespace(source, AfterMarker))]_vars

\* The offset of the next "<" at or after offset k, or the end of the input.
NextTagOpen(src, k) ==
    CHOOSE m \in k..Len(src) :
        /\ \A j \in (k + 1)..m : src[j] # "<"
        /\ (m = Len(src) \/ src[m + 1] = "<")

\* C27: every Text token is the whole run of characters from the cursor up
\* to the next "<" or the end of the input, and is not empty; no Text token
\* follows a Text token; and a call of next() outside a tag at a character
\* other than "<" that returns a token returns that Text, so a run of
\* whitespace between two tags is a Text token.
C27_TextIsMaximal ==
    [][/\ \A n \in (Len(tokens) + 1)..Len(tokens') :
             tokens'[n].kind = "Text" =>
                 /\ tz.consume_mode = "OutsideTag"
                 /\ tokens'[n].payload # <<>>
                 /\ tokens'[n].payload = SubSeq(source, tz.it + 1, NextTagOpen(source, tz.it))
                 /\ tokens'[n].span.source = tokens'[n].payload
                 /\ tz'.it = NextTagOpen(source, tz.it)
                 /\ tz'.consume_mode = "OutsideTag"
                 /\ n > 1 => tokens'[n - 1].kind # "Text"
       /\ (status = "running" /\ calls' > calls /\ status' # "panicked"
              /\ tz.consume_mode = "OutsideTag" /\ tz.it < Len(source)
              /\ At(source, tz.it) # "<")
             => /\ Len(tokens') = Len(tokens) + 1
                /\ tokens'[Len(tokens')].kind = "Text"
       /\ (input = DocSpacedTags /\ status' = "done") =>
             KindsOf(tokens') =
                 << <<"TagName", <<"a">>>>, <<"OpeningTagEnd", <<>>>>, <<"Text", <<" ">>>>,
                    <<"TagEnd", <<"a">>>>, <<"Text", <<"\n">>>>, <<"TagName", <<"b">>>>,
                    <<"OpeningTagEnd", <<>>>> >>]_vars

\* C27 witness: the document with a blank and a newline between its tags was
\* scanned, and both runs are Text tokens.
C27_Witness ==
    /\ FirstReturned
    /\ input = DocSpacedTags
    /\ Len(OfKinds(tokens, {"Text"})) = 2

\* C28: comments and DOCTYPE go through the tag rules: for <!-- c --> and
\* <!DOCTYPE html> the scanner emits the TagName !-- or !DOCTYPE, then a name
\* and a value token for each word that follows, and the builder makes the
\* TagName an Element of the forest with these attributes.
C28_DeclarationsAreTags ==
    /\ (FirstOver /\ input = DocShortComment) =>
           /\ FirstReturned
           /\ KindsOf(tokens) =
                  << <<"TagName", <<"!", "-", "-">>>>,
                     <<"AttributeName", <<"c">>>>, <<"AttributeValue", <<>>>>,
                     <<"AttributeName", <<"-", "-">>>>, <<"AttributeValue", <<>>>>,
                     <<"OpeningTagEnd", <<>>>> >>
           /\ Len(Forest) = 1
           /\ Forest[1] = ElementNode(tokens[1],
                                      <<Attribute(tokens[2], tokens[3]),
                                        Attribute(tokens[4], tokens[5])>>,
                                      <<>>)
    /\ (FirstOver /\ input = DocDoctypeOnly) =>
           /\ FirstReturned
           /\ KindsOf(tokens) =
                  << <<"TagName", <<"!", "D", "O", "C", "T", "Y", "P", "E">>>>,
                     <<"AttributeName", <<"h", "t", "m", "l">>>>,
                     <<"AttributeValue", <<>>>>,
                     <<"OpeningTagEnd", <<>>>> >>
           /\ Len(Forest) = 1
           /\ Forest[1] = ElementNode(tokens[1], <<Attribute(tokens[2], tokens[3])>>, <<>>)

\* C28 witness: <!-- c --> was parsed into one Element of two attributes.
C28_Witness ==
    /\ FirstReturned
    /\ input = DocShortComment
    /\ Forest[1].kind = "Element"
    /\ Forest[1].tag_name.payload = <<"!", "-", "-">>
    /\ Len(Forest[1].attributes) = 2

=============================================================================
